---- MODULE Spec2Model ----
(***************************************************************************)
(* Policy enforcement engine of the AI governance backend.                 *)
(*                                                                         *)
(* The database tables are the state; every handler is an action, and the  *)
(* handler update_compliance_status is split at its database statements so *)
(* that two requests can interleave.  Rows carry the columns the engine    *)
(* reads or writes.  A missing value (Python None) is the string "None".   *)
(***************************************************************************)
EXTENDS Integers, Sequences, FiniteSets, TLC

VARIABLES
    models,      \* table modelregistry, row id = index
    policies,    \* table policy, row id = index
    versions,    \* table modelversion, row id = index
    metrics,     \* table evaluationmetric, row id = index
    violations,  \* table policyviolation, in commit order
    audit,       \* table compliancelog, in commit order
    pc,          \* position of each update_compliance_status request
    req,         \* locals of each update_compliance_status request
    resp,        \* HTTP response of each finished request
    seen,        \* history: the compliance_status values each model row held
    nreq,        \* number of requests started
    admin        \* position and locals of each request of the other handlers

vars ==
    <<models, policies, versions, metrics, violations, audit, pc, req, resp, seen, nreq, admin>>

db == <<models, policies, versions, metrics, violations, audit>>

requests == <<pc, req, resp>>

----------------------------------------------------------------------------
(* Bounds of the model *)

\* update_compliance_status requests started in one behaviour
MaxRequests == 2
\* evaluationmetric rows added in one behaviour
MaxMetrics == 1

----------------------------------------------------------------------------
(* Enumerations and value sets *)

None == "None"

\* the organization id 0 (ids of organizations are strings in the model)
Zero == "0"

RiskLevel == {"unclassified", "minimal", "limited", "high", "unacceptable"}

ComplianceStatus == {"draft", "under_review", "approved", "retired"}

PolicyScope == {"global", "organization", "environment"}

PolicyConditionType ==
    {"require_evaluation_before_approval",
     "block_high_risk_without_approval",
     "require_review_for_high_risk"}

\* request slots: two requests can be in flight at once
Procs == {1, 2}

HighRisk == {"high", "unacceptable"}

NoRow == [id |-> 0, risk_level |-> None, compliance_status |-> None, organization_id |-> None]

NoResult == [allowed |-> FALSE, policy_id |-> 0, message |-> <<>>]

\* fault: the database statement of this request that failed, if one did
NoReq == [model_id |-> 0, status |-> None, model |-> NoRow, policies |-> <<>>,
          idx |-> 0, result |-> NoResult, old_status |-> None, fault |-> None]

NoResp == [code |-> 0, detail |-> <<>>]

\* request slots of the handlers other than update_compliance_status
Admins == {1, 2}

\* a payload field that the request body does not set (exclude_unset drops it)
Unset == "Unset"

\* op: the handler; payload: the request body; id: the row the request is on;
\* code: the HTTP status of the response, 0 while there is none
\* loaded: the row as session.get returned it
NoAdmin ==
    [op |-> None, pc |-> "idle", id |-> 0, payload |-> [name |-> Unset], loaded |-> NoRow,
     code |-> 0]

----------------------------------------------------------------------------
(* Helpers *)

Last(s) == s[Len(s)]

\* every order in which a query without ORDER BY can return the rows S
Orders(S) ==
    {f \in [1..Cardinality(S) -> S] : \A i, j \in 1..Cardinality(S) : f[i] = f[j] => i = j}

----------------------------------------------------------------------------
(* policy_engine.py *)

PolicyEnforcementResult(allowed, policy_id, message) ==
    [allowed |-> allowed, policy_id |-> policy_id, message |-> message]

\* get_active_policies without the is_active test
get_active_policies_any_flag(organization_id) ==
    {policies[i] : i \in
        {j \in DOMAIN policies :
            organization_id \notin {None, Zero} =>
                policies[j].organization_id \in {None, organization_id}}}

\* get_active_policies that takes every policy of scope global as applicable
get_active_policies_by_scope(organization_id) ==
    {policies[i] : i \in
        {j \in DOMAIN policies :
            /\ policies[j].is_active
            /\ (organization_id \notin {None, Zero} =>
                    \/ policies[j].scope = "global"
                    \/ policies[j].organization_id \in {None, organization_id})}}

\* get_active_policies that filters by organization also when the id is unset
get_active_policies_always_filtered(organization_id) ==
    {policies[i] : i \in
        {j \in DOMAIN policies :
            /\ policies[j].is_active
            /\ policies[j].organization_id \in {None, organization_id}}}

\* get_active_policies without the organization filter
get_active_policies_all_orgs(organization_id) ==
    {policies[i] : i \in {j \in DOMAIN policies : policies[j].is_active}}

\* rows of policy selected by the query; organization_id is the entity's, and
\* "if organization_id:" adds the filter unless it is None or 0
get_active_policies(organization_id) ==
    {policies[i] : i \in
        {j \in DOMAIN policies :
            /\ policies[j].is_active
            /\ (organization_id \notin {None, Zero} =>
                    policies[j].organization_id \in {None, organization_id})}}

\* check_require_evaluation_before_approval counting the metrics of any version
check_require_evaluation_any_version(model, new_status) ==
    IF new_status # "approved" THEN TRUE
    ELSE \E v \in DOMAIN versions : \E m \in DOMAIN metrics : metrics[m].version_id = v

\* model is the row as loaded by the request's session
\* the check on the newest version of the model only
check_require_evaluation_latest_version(model, new_status) ==
    IF new_status # "approved" THEN TRUE
    ELSE \E v \in DOMAIN versions :
            /\ versions[v].model_id = model.id
            /\ \A w \in DOMAIN versions : versions[w].model_id = model.id => w <= v
            /\ \E m \in DOMAIN metrics : metrics[m].version_id = v

check_require_evaluation_before_approval(model, new_status) ==
    IF new_status # "approved" THEN TRUE
    ELSE \E v \in DOMAIN versions :
            /\ versions[v].model_id = model.id
            /\ \E m \in DOMAIN metrics : metrics[m].version_id = v

\* check_block_high_risk_without_approval without the test of the current status
check_block_high_risk_any_status(model, new_status) ==
    IF model.risk_level \notin {"high", "unacceptable"} THEN TRUE
    ELSE IF new_status = "approved" THEN FALSE
    ELSE TRUE

\* check_block_high_risk_without_approval allowing approval only from under_review
check_block_high_risk_unless_reviewed(model, new_status) ==
    IF model.risk_level \notin {"high", "unacceptable"} THEN TRUE
    ELSE IF new_status = "approved" /\ model.compliance_status # "under_review" THEN FALSE
    ELSE TRUE

check_block_high_risk_without_approval(model, new_status) ==
    IF model.risk_level \notin {"high", "unacceptable"} THEN TRUE
    ELSE IF new_status = "approved" /\ model.compliance_status = "draft" THEN FALSE
    ELSE TRUE

\* the check as its name reads: a high-risk entity is approved from
\* under_review only
check_require_review_enforced(model, new_status) ==
    IF model.risk_level \notin {"high", "unacceptable"} THEN TRUE
    ELSE IF new_status = "approved" /\ model.compliance_status # "under_review" THEN FALSE
    ELSE TRUE

check_require_review_for_high_risk(model, new_status) ==
    IF model.risk_level \notin {"high", "unacceptable"} THEN TRUE
    ELSE TRUE

\* keys of the dispatch table
POLICY_CHECKS ==
    {"require_evaluation_before_approval",
     "block_high_risk_without_approval",
     "require_review_for_high_risk"}

\* POLICY_CHECKS[condition_type](session, model, new_status)
check_fn(condition_type, model, new_status) ==
    CASE condition_type = "require_evaluation_before_approval" ->
            check_require_evaluation_before_approval(model, new_status)
      [] condition_type = "block_high_risk_without_approval" ->
            check_block_high_risk_without_approval(model, new_status)
      [] condition_type = "require_review_for_high_risk" ->
            check_require_review_for_high_risk(model, new_status)

\* the loop's test of one policy where a policy without a check counts as failed
SatisfiedNoDefault(policy, model, new_status) ==
    IF policy.condition_type \notin POLICY_CHECKS THEN FALSE
    ELSE check_fn(policy.condition_type, model, new_status)

\* the loop's test of one policy: a policy without a check is skipped (continue)
Satisfied(policy, model, new_status) ==
    IF policy.condition_type \notin POLICY_CHECKS THEN TRUE
    ELSE check_fn(policy.condition_type, model, new_status)

\* policy.description or policy.condition_type.value
DescriptionOrCondition(policy) ==
    IF policy.description \in {None, ""} THEN policy.condition_type ELSE policy.description

\* f"Policy '{policy.name}' blocked this action: {...}", as its pieces
Message(policy) ==
    <<"Policy '", policy.name, "' blocked this action: ", DescriptionOrCondition(policy)>>

\* the PolicyViolation row with the two statuses taken the other way round
ViolationStatusesSwapped(policy, model, new_status) ==
    [policy_id |-> policy.id,
     model_id |-> model.id,
     user_id |-> None,
     action |-> "change_compliance_status",
     details |-> [attempted_status |-> model.compliance_status,
                  current_status |-> new_status,
                  policy_name |-> policy.name,
                  policy_condition |-> policy.condition_type,
                  reason |-> <<"Policy '", policy.name, "' blocked this action">>]]

\* the PolicyViolation row built on a failed check
Violation(policy, model, new_status) ==
    [policy_id |-> policy.id,
     model_id |-> model.id,
     user_id |-> None,
     action |-> "change_compliance_status",
     details |-> [attempted_status |-> new_status,
                  current_status |-> model.compliance_status,
                  policy_name |-> policy.name,
                  policy_condition |-> policy.condition_type,
                  reason |-> <<"Policy '", policy.name, "' blocked this action">>]]

\* the ComplianceLog row written with the violation
ViolationAudit(policy, model) ==
    [entity_type |-> "PolicyViolation",
     entity_id |-> model.id,
     action |-> "POLICY_VIOLATION",
     details |-> [policy_id |-> policy.id, policy_name |-> policy.name,
                  attempted_action |-> "change_compliance_status", blocked |-> TRUE]]

----------------------------------------------------------------------------
(* routes.py: update_compliance_status, one action per database statement *)

\* the body fails the validation of ComplianceStatusUpdate (status is not a
\* value of the enum ComplianceStatus): 422, the handler is not entered
RejectStatus(r, model_id, status) ==
    /\ pc[r] \in {"idle", "done"}
    /\ status \notin ComplianceStatus
    /\ nreq < MaxRequests
    /\ nreq' = nreq + 1
    /\ pc' = [pc EXCEPT ![r] = "done"]
    /\ req' = [req EXCEPT ![r] = [NoReq EXCEPT !.model_id = model_id, !.status = status]]
    /\ resp' = [resp EXCEPT ![r] = [code |-> 422, detail |-> <<"value is not a valid enum">>]]
    /\ UNCHANGED <<db, seen, admin>>

\* a handler entered with any status string
GetModelUnvalidated(r, model_id, status) ==
    /\ pc[r] \in {"idle", "done"}
    /\ nreq < MaxRequests
    /\ nreq' = nreq + 1
    /\ model_id \in DOMAIN models
    /\ pc' = [pc EXCEPT ![r] = "loaded"]
    /\ req' = [req EXCEPT ![r] = [NoReq EXCEPT !.model_id = model_id,
                                                !.status = status,
                                                !.model = models[model_id]]]
    /\ resp' = [resp EXCEPT ![r] = NoResp]
    /\ UNCHANGED <<db, seen, admin>>

\* the handler is entered with a validated body (payload: ComplianceStatusUpdate);
\* session.get(ModelRegistry, model_id), 404 when there is no such row
GetModel(r, model_id, status) ==
    /\ pc[r] \in {"idle", "done"}
    /\ status \in ComplianceStatus
    /\ nreq < MaxRequests
    /\ nreq' = nreq + 1
    /\ IF model_id \in DOMAIN models
       THEN /\ pc' = [pc EXCEPT ![r] = "loaded"]
            /\ req' = [req EXCEPT ![r] = [NoReq EXCEPT !.model_id = model_id,
                                                        !.status = status,
                                                        !.model = models[model_id]]]
            /\ resp' = [resp EXCEPT ![r] = NoResp]
       ELSE /\ pc' = [pc EXCEPT ![r] = "done"]
            /\ req' = [req EXCEPT ![r] = [NoReq EXCEPT !.model_id = model_id, !.status = status]]
            /\ resp' = [resp EXCEPT ![r] = [code |-> 404, detail |-> <<"Model not found">>]]
    /\ UNCHANGED <<db, seen, admin>>

\* the policy read served from a list that was cached before the newest
\* policy row was written
ReadPoliciesCached(r) ==
    /\ pc[r] = "loaded"
    /\ \E order \in Orders({p \in get_active_policies(req[r].model.organization_id) :
                                p.id = 1}) :
          req' = [req EXCEPT ![r].policies = order, ![r].idx = 1]
    /\ pc' = [pc EXCEPT ![r] = "checking"]
    /\ UNCHANGED <<db, resp, seen, nreq, admin>>

\* policies = get_active_policies(session, model.organization_id)
ReadPolicies(r) ==
    /\ pc[r] = "loaded"
    /\ \E order \in Orders(get_active_policies(req[r].model.organization_id)) :
          req' = [req EXCEPT ![r].policies = order, ![r].idx = 1]
    /\ pc' = [pc EXCEPT ![r] = "checking"]
    /\ UNCHANGED <<db, resp, seen, nreq, admin>>

\* the policy read raises and the error is swallowed: the call returns allowed
ReadPoliciesFailsOpen(r) ==
    /\ pc[r] = "loaded"
    /\ pc' = [pc EXCEPT ![r] = "allowed"]
    /\ req' = [req EXCEPT ![r].fault = "policy_read",
                          ![r].result = PolicyEnforcementResult(TRUE, 0, <<>>)]
    /\ UNCHANGED <<db, resp, seen, nreq, admin>>

\* the policy read raises: the exception leaves the handler, the session is closed
ReadPoliciesFails(r) ==
    /\ pc[r] = "loaded"
    /\ pc' = [pc EXCEPT ![r] = "done"]
    /\ req' = [req EXCEPT ![r].fault = "policy_read"]
    /\ resp' = [resp EXCEPT ![r] = [code |-> 500, detail |-> <<"Internal Server Error">>]]
    /\ UNCHANGED <<db, seen, nreq, admin>>

\* one turn of the loop whose check is satisfied, or whose policy has no check
CheckPasses(r) ==
    /\ pc[r] = "checking"
    /\ req[r].idx <= Len(req[r].policies)
    /\ Satisfied(req[r].policies[req[r].idx], req[r].model, req[r].status)
    /\ req' = [req EXCEPT ![r].idx = @ + 1]
    /\ UNCHANGED <<db, pc, resp, seen, nreq, admin>>

\* a failed check that records the violation and goes on with the next policy
CheckFailsNoReturn(r) ==
    /\ pc[r] = "checking"
    /\ req[r].idx <= Len(req[r].policies)
    /\ LET policy == req[r].policies[req[r].idx] IN
          /\ ~Satisfied(policy, req[r].model, req[r].status)
          /\ violations' = Append(violations, Violation(policy, req[r].model, req[r].status))
          /\ audit' = Append(audit, ViolationAudit(policy, req[r].model))
    /\ req' = [req EXCEPT ![r].idx = @ + 1]
    /\ UNCHANGED <<models, policies, versions, metrics, pc, resp, seen, nreq, admin>>

\* a failed check that commits the violation alone: its audit row is lost
CheckFailsViolationOnly(r) ==
    /\ pc[r] = "checking"
    /\ req[r].idx <= Len(req[r].policies)
    /\ LET policy == req[r].policies[req[r].idx] IN
          /\ ~Satisfied(policy, req[r].model, req[r].status)
          /\ violations' = Append(violations, Violation(policy, req[r].model, req[r].status))
          /\ req' = [req EXCEPT ![r].result =
                        PolicyEnforcementResult(FALSE, policy.id, Message(policy))]
          /\ resp' = [resp EXCEPT ![r] =
                        [code |-> 403, detail |-> <<"Policy violation: ">> \o Message(policy)]]
    /\ pc' = [pc EXCEPT ![r] = "done"]
    /\ UNCHANGED <<models, policies, versions, metrics, audit, seen, nreq, admin>>

\* a failed check in a handler that assigned the new status before the call:
\* the engine's commit of the violation flushes the status too
CheckFailsStatusFlushed(r) ==
    /\ pc[r] = "checking"
    /\ req[r].idx <= Len(req[r].policies)
    /\ LET policy == req[r].policies[req[r].idx] IN
          /\ ~Satisfied(policy, req[r].model, req[r].status)
          /\ violations' = Append(violations, Violation(policy, req[r].model, req[r].status))
          /\ audit' = Append(audit, ViolationAudit(policy, req[r].model))
          /\ req' = [req EXCEPT ![r].result =
                        PolicyEnforcementResult(FALSE, policy.id, Message(policy))]
          /\ resp' = [resp EXCEPT ![r] =
                        [code |-> 403, detail |-> <<"Policy violation: ">> \o Message(policy)]]
    /\ models' = [models EXCEPT ![req[r].model_id].compliance_status = req[r].status]
    /\ pc' = [pc EXCEPT ![r] = "done"]
    /\ UNCHANGED <<policies, versions, metrics, seen, nreq, admin>>

\* a failed check whose handler raises 403 with a fixed detail
CheckFailsFixedDetail(r) ==
    /\ pc[r] = "checking"
    /\ req[r].idx <= Len(req[r].policies)
    /\ LET policy == req[r].policies[req[r].idx] IN
          /\ ~Satisfied(policy, req[r].model, req[r].status)
          /\ violations' = Append(violations, Violation(policy, req[r].model, req[r].status))
          /\ audit' = Append(audit, ViolationAudit(policy, req[r].model))
          /\ req' = [req EXCEPT ![r].result =
                        PolicyEnforcementResult(FALSE, policy.id, Message(policy))]
          /\ resp' = [resp EXCEPT ![r] = [code |-> 403, detail |-> <<"Policy violation">>]]
    /\ pc' = [pc EXCEPT ![r] = "done"]
    /\ UNCHANGED <<models, policies, versions, metrics, seen, nreq, admin>>

\* a failed check: violation and audit row are added and committed together,
\* the result is returned and the handler raises 403
CheckFails(r) ==
    /\ pc[r] = "checking"
    /\ req[r].idx <= Len(req[r].policies)
    /\ LET policy == req[r].policies[req[r].idx] IN
          /\ ~Satisfied(policy, req[r].model, req[r].status)
          /\ violations' = Append(violations, Violation(policy, req[r].model, req[r].status))
          /\ audit' = Append(audit, ViolationAudit(policy, req[r].model))
          /\ req' = [req EXCEPT ![r].result =
                        PolicyEnforcementResult(FALSE, policy.id, Message(policy))]
          /\ resp' = [resp EXCEPT ![r] =
                        [code |-> 403, detail |-> <<"Policy violation: ">> \o Message(policy)]]
    /\ pc' = [pc EXCEPT ![r] = "done"]
    /\ UNCHANGED <<models, policies, versions, metrics, seen, nreq, admin>>

\* a failed check whose session.commit() raises: nothing is persisted
CheckFailsCommitFails(r) ==
    /\ pc[r] = "checking"
    /\ req[r].idx <= Len(req[r].policies)
    /\ ~Satisfied(req[r].policies[req[r].idx], req[r].model, req[r].status)
    /\ pc' = [pc EXCEPT ![r] = "done"]
    /\ req' = [req EXCEPT ![r].fault = "violation_commit"]
    /\ resp' = [resp EXCEPT ![r] = [code |-> 500, detail |-> <<"Internal Server Error">>]]
    /\ UNCHANGED <<db, seen, nreq, admin>>

\* the allow path writing an audit row of its own
EnforceAllowsLogged(r) ==
    /\ pc[r] = "checking"
    /\ req[r].idx > Len(req[r].policies)
    /\ req' = [req EXCEPT ![r].result = PolicyEnforcementResult(TRUE, 0, <<>>)]
    /\ pc' = [pc EXCEPT ![r] = "allowed"]
    /\ audit' = Append(audit,
                  [entity_type |-> "ModelRegistry", entity_id |-> req[r].model_id,
                   action |-> "POLICY_CHECK", details |-> [blocked |-> FALSE]])
    /\ UNCHANGED <<models, policies, versions, metrics, violations, resp, seen, nreq, admin>>

\* the loop is exhausted: return PolicyEnforcementResult(allowed=True)
EnforceAllows(r) ==
    /\ pc[r] = "checking"
    /\ req[r].idx > Len(req[r].policies)
    /\ req' = [req EXCEPT ![r].result = PolicyEnforcementResult(TRUE, 0, <<>>)]
    /\ pc' = [pc EXCEPT ![r] = "allowed"]
    /\ UNCHANGED <<db, resp, seen, nreq, admin>>

\* a handler with a lifecycle order: the status is written only when the
\* target comes later in draft, under_review, approved, retired
ApplyStatusForwardOnly(r) ==
    /\ pc[r] = "allowed"
    /\ LET id == req[r].model_id
           old == req[r].model.compliance_status
           new == req[r].status
           rank == [draft |-> 1, under_review |-> 2, approved |-> 3, retired |-> 4]
       IN /\ models' = IF rank[new] <= rank[old] THEN models
                       ELSE [models EXCEPT ![id].compliance_status = new]
          /\ seen' = [seen EXCEPT ![id] = @ \cup {models'[id].compliance_status}]
          /\ req' = [req EXCEPT ![r].old_status = old, ![r].model = models'[id]]
    /\ pc' = [pc EXCEPT ![r] = "applied"]
    /\ UNCHANGED <<policies, versions, metrics, violations, audit, resp, nreq, admin>>

\* old_status = model.compliance_status; model.compliance_status = payload.status;
\* commit; refresh.  The UPDATE is emitted only when the attribute changed.
ApplyStatus(r) ==
    /\ pc[r] = "allowed"
    /\ LET id == req[r].model_id
           old == req[r].model.compliance_status
           new == req[r].status
       IN /\ models' = IF new = old THEN models
                       ELSE [models EXCEPT ![id].compliance_status = new]
          /\ seen' = [seen EXCEPT ![id] = @ \cup {models'[id].compliance_status}]
          /\ req' = [req EXCEPT ![r].old_status = old, ![r].model = models'[id]]
    /\ pc' = [pc EXCEPT ![r] = "applied"]
    /\ UNCHANGED <<policies, versions, metrics, violations, audit, resp, nreq, admin>>

\* the commit of the status raises: rolled back, the exception leaves the handler
ApplyStatusFails(r) ==
    /\ pc[r] = "allowed"
    /\ pc' = [pc EXCEPT ![r] = "done"]
    /\ req' = [req EXCEPT ![r].fault = "status_commit"]
    /\ resp' = [resp EXCEPT ![r] = [code |-> 500, detail |-> <<"Internal Server Error">>]]
    /\ UNCHANGED <<db, seen, nreq, admin>>

\* the COMPLIANCE_STATUS_CHANGE row written over the last row of the log
LogStatusChangeOverwrites(r) ==
    /\ pc[r] = "applied"
    /\ LET row == [entity_type |-> "ModelRegistry",
                   entity_id |-> req[r].model_id,
                   action |-> "COMPLIANCE_STATUS_CHANGE",
                   details |-> [from |-> req[r].old_status, to |-> req[r].status]]
       IN audit' = IF audit = <<>> THEN <<row>> ELSE [audit EXCEPT ![Len(audit)] = row]
    /\ pc' = [pc EXCEPT ![r] = "done"]
    /\ resp' = [resp EXCEPT ![r] = [code |-> 200, detail |-> <<>>]]
    /\ UNCHANGED <<models, policies, versions, metrics, violations, req, seen, nreq, admin>>

\* the COMPLIANCE_STATUS_CHANGE row, added and committed after the status
LogStatusChange(r) ==
    /\ pc[r] = "applied"
    /\ audit' = Append(audit,
                  [entity_type |-> "ModelRegistry",
                   entity_id |-> req[r].model_id,
                   action |-> "COMPLIANCE_STATUS_CHANGE",
                   details |-> [from |-> req[r].old_status, to |-> req[r].status]])
    /\ pc' = [pc EXCEPT ![r] = "done"]
    /\ resp' = [resp EXCEPT ![r] = [code |-> 200, detail |-> <<>>]]
    /\ UNCHANGED <<models, policies, versions, metrics, violations, req, seen, nreq, admin>>

\* the commit of the audit row raises: the status stays changed
LogStatusChangeFails(r) ==
    /\ pc[r] = "applied"
    /\ pc' = [pc EXCEPT ![r] = "done"]
    /\ req' = [req EXCEPT ![r].fault = "audit_commit"]
    /\ resp' = [resp EXCEPT ![r] = [code |-> 500, detail |-> <<"Internal Server Error">>]]
    /\ UNCHANGED <<db, seen, nreq, admin>>

\* every step of the handler, for request slot r
update_compliance_status(r, Ids, Targets) ==
    \/ \E model_id \in Ids, status \in Targets : GetModel(r, model_id, status)
    \/ ReadPolicies(r)
    \/ ReadPoliciesFails(r)
    \/ CheckPasses(r)
    \/ CheckFails(r)
    \/ CheckFailsCommitFails(r)
    \/ EnforceAllows(r)
    \/ ApplyStatus(r)
    \/ ApplyStatusFails(r)
    \/ LogStatusChange(r)
    \/ LogStatusChangeFails(r)

----------------------------------------------------------------------------
(* routes.py: the other writers *)

\* POST /metrics/: the version must exist (foreign key)
add_metric(version_id) ==
    /\ version_id \in DOMAIN versions
    /\ Len(metrics) < MaxMetrics
    /\ metrics' = Append(metrics, [id |-> Len(metrics) + 1, version_id |-> version_id])
    /\ UNCHANGED <<models, policies, versions, violations, audit, requests, seen, nreq, admin>>

\* the columns of a row of table modelregistry that the engine reads
ModelRegistry(id, risk_level, compliance_status) ==
    [id |-> id, risk_level |-> risk_level, compliance_status |-> compliance_status]

\* the row with its tenant: the engine reads model.organization_id, a column
\* the class ModelRegistry does not declare; it is the entity's organization
\* ("Models, policies, and users belong to organizations"), None when unset
OfOrganization(row, organization_id) ==
    [id |-> row.id, risk_level |-> row.risk_level,
     compliance_status |-> row.compliance_status,
     organization_id |-> organization_id]

\* a handler that is not update_compliance_status is entered in slot a
Enter(a, op, at, id, payload, loaded) ==
    /\ admin[a].pc \in {"idle", "done"}
    /\ nreq < MaxRequests
    /\ nreq' = nreq + 1
    /\ admin' = [admin EXCEPT ![a] = [op |-> op, pc |-> at, id |-> id,
                                       payload |-> payload, loaded |-> loaded, code |-> 0]]

\* the handler in slot a gives its response
Respond(a, code) == admin' = [admin EXCEPT ![a].pc = "done", ![a].code = code]

\* POST /models/: ModelRegistry(**payload.model_dump()), add, commit, refresh.
\* ModelCreate has no compliance_status: the column takes its default, draft.
CreateModelCommit(a, risk_level) ==
    /\ Enter(a, "create_model", "committed", Len(models) + 1,
             [risk_level |-> risk_level], NoRow)
    /\ models' = Append(models,
                    OfOrganization(ModelRegistry(Len(models) + 1, risk_level, "draft"), None))
    /\ seen' = Append(seen, {"draft"})
    /\ UNCHANGED <<policies, versions, metrics, violations, audit, requests>>

\* the CREATE row of the audit log, committed after the model
CreateModelLog(a) ==
    /\ admin[a].op = "create_model" /\ admin[a].pc = "committed"
    /\ audit' = Append(audit,
                  [entity_type |-> "ModelRegistry", entity_id |-> admin[a].id,
                   action |-> "CREATE", details |-> [name |-> <<"model", admin[a].id>>]])
    /\ Respond(a, 200)
    /\ UNCHANGED <<models, policies, versions, metrics, violations, requests, seen, nreq>>

\* the commit of the CREATE row raises: the model stays created
CreateModelLogFails(a) ==
    /\ admin[a].op = "create_model" /\ admin[a].pc = "committed"
    /\ Respond(a, 500)
    /\ UNCHANGED <<db, requests, seen, nreq>>

create_model(a, Risks) ==
    \/ \E risk_level \in Risks : CreateModelCommit(a, risk_level)
    \/ CreateModelLog(a)
    \/ CreateModelLogFails(a)

\* POST /versions/: ModelVersion(**payload.model_dump()), add, commit, refresh;
\* the model must exist (foreign key)
CreateVersionCommit(a, model_id) ==
    /\ model_id \in DOMAIN models
    /\ Enter(a, "create_version", "committed", Len(versions) + 1,
             [name |-> Unset], NoRow)
    /\ versions' = Append(versions, [id |-> Len(versions) + 1, model_id |-> model_id])
    /\ UNCHANGED <<models, policies, metrics, violations, audit, requests, seen>>

\* the CREATE row of the audit log, committed after the version
CreateVersionLog(a) ==
    /\ admin[a].op = "create_version" /\ admin[a].pc = "committed"
    /\ audit' = Append(audit,
                  [entity_type |-> "ModelVersion", entity_id |-> admin[a].id,
                   action |-> "CREATE", details |-> [tag |-> <<"v", admin[a].id>>]])
    /\ Respond(a, 200)
    /\ UNCHANGED <<models, policies, versions, metrics, violations, requests, seen, nreq>>

\* the commit of the CREATE row raises: the version stays created
CreateVersionLogFails(a) ==
    /\ admin[a].op = "create_version" /\ admin[a].pc = "committed"
    /\ Respond(a, 500)
    /\ UNCHANGED <<db, requests, seen, nreq>>

create_version(a, Ids) ==
    \/ \E model_id \in Ids : CreateVersionCommit(a, model_id)
    \/ CreateVersionLog(a)
    \/ CreateVersionLogFails(a)

\* PATCH /models/{id}/risk-profile: session.get, 404 when there is no such row
RiskProfileGet(a, model_id, risk_level) ==
    /\ IF model_id \in DOMAIN models
       THEN Enter(a, "update_risk_profile", "loaded", model_id,
                  [risk_level |-> risk_level], models[model_id])
       ELSE /\ admin[a].pc \in {"idle", "done"}
            /\ nreq < MaxRequests
            /\ nreq' = nreq + 1
            /\ admin' = [admin EXCEPT ![a] =
                            [NoAdmin EXCEPT !.op = "update_risk_profile", !.pc = "done",
                                            !.id = model_id, !.code = 404]]
    /\ UNCHANGED <<db, requests, seen>>

\* update_risk_profile whose payload schema also carries compliance_status
RiskProfileCommitWithStatus(a) ==
    /\ admin[a].op = "update_risk_profile" /\ admin[a].pc = "loaded"
    /\ models' = [models EXCEPT ![admin[a].id].compliance_status = "approved"]
    /\ seen' = [seen EXCEPT ![admin[a].id] = @ \cup {"approved"}]
    /\ admin' = [admin EXCEPT ![a].pc = "committed"]
    /\ UNCHANGED <<policies, versions, metrics, violations, audit, requests, nreq>>

\* setattr for every field the payload sets, commit, refresh: no policy is
\* consulted.  The UPDATE is emitted only for a column whose value changed.
RiskProfileCommit(a) ==
    /\ admin[a].op = "update_risk_profile" /\ admin[a].pc = "loaded"
    /\ LET new == admin[a].payload.risk_level IN
          models' = IF new \in {Unset, admin[a].loaded.risk_level} THEN models
                    ELSE [models EXCEPT ![admin[a].id].risk_level = new]
    /\ admin' = [admin EXCEPT ![a].pc = "committed"]
    /\ UNCHANGED <<policies, versions, metrics, violations, audit, requests, seen, nreq>>

\* the UPDATE_RISK_PROFILE row of the audit log, committed after the model
RiskProfileLog(a) ==
    /\ admin[a].op = "update_risk_profile" /\ admin[a].pc = "committed"
    /\ audit' = Append(audit,
                  [entity_type |-> "ModelRegistry", entity_id |-> admin[a].id,
                   action |-> "UPDATE_RISK_PROFILE", details |-> admin[a].payload])
    /\ Respond(a, 200)
    /\ UNCHANGED <<models, policies, versions, metrics, violations, requests, seen, nreq>>

\* the commit of the UPDATE_RISK_PROFILE row raises: the profile stays changed
RiskProfileLogFails(a) ==
    /\ admin[a].op = "update_risk_profile" /\ admin[a].pc = "committed"
    /\ Respond(a, 500)
    /\ UNCHANGED <<db, requests, seen, nreq>>

update_risk_profile(a, Ids, Risks) ==
    \/ \E model_id \in Ids, risk_level \in Risks : RiskProfileGet(a, model_id, risk_level)
    \/ RiskProfileCommit(a)
    \/ RiskProfileLog(a)
    \/ RiskProfileLogFails(a)

----------------------------------------------------------------------------
(* policy_routes.py *)

\* PATCH /policies/{id} with is_active in the payload
update_policy_is_active(policy_id, is_active) ==
    /\ policy_id \in DOMAIN policies
    /\ policies[policy_id].is_active # is_active
    /\ policies' = [policies EXCEPT ![policy_id].is_active = is_active]
    /\ UNCHANGED <<models, versions, metrics, violations, audit, requests, seen, nreq, admin>>

\* DELETE /policies/{id} as session.delete(policy): the row is removed
delete_policy_hard(policy_id) ==
    /\ policy_id \in DOMAIN policies
    /\ policies' = [i \in DOMAIN policies \ {policy_id} |-> policies[i]]
    /\ UNCHANGED <<models, versions, metrics, violations, audit, requests, seen, nreq, admin>>

\* DELETE /policies/{id}: soft delete
delete_policy(policy_id) ==
    /\ policy_id \in DOMAIN policies
    /\ policies[policy_id].is_active
    /\ policies' = [policies EXCEPT ![policy_id].is_active = FALSE]
    /\ UNCHANGED <<models, versions, metrics, violations, audit, requests, seen, nreq, admin>>


----------------------------------------------------------------------------
(* Rows and populations *)

\* a row of table policy (policy.py)
Policy(id, name, description, scope, condition_type, is_active, organization_id) ==
    [id |-> id, name |-> name, description |-> description, scope |-> scope,
     condition_type |-> condition_type, is_active |-> is_active,
     organization_id |-> organization_id]

\* model 1 has version 1, model 2 has version 2
TwoVersions == <<[id |-> 1, model_id |-> 1], [id |-> 2, model_id |-> 2]>>

\* the requests' variables before any request
InitRequests ==
    /\ pc = [r \in Procs |-> "idle"]
    /\ req = [r \in Procs |-> NoReq]
    /\ resp = [r \in Procs |-> NoResp]
    /\ nreq = 0
    /\ admin = [a \in Admins |-> NoAdmin]

\* a database holding the given rows, with empty logs and no metric
InitTables(ms, ps) ==
    /\ models = ms
    /\ policies = ps
    /\ versions = TwoVersions
    /\ metrics = <<>>
    /\ violations = <<>>
    /\ audit = <<>>
    /\ seen = [i \in DOMAIN ms |-> {ms[i].compliance_status}]

----------------------------------------------------------------------------
(* policy_routes.py: create_policy and update_policy, one action per       *)
(* database statement                                                      *)

\* a unique index that is not enforced
NameTakenNever(name, policy_id) == FALSE

\* the unique index on policy.name (Field(index=True, unique=True)): the name
\* is stored in a row other than policy_id
NameTaken(name, policy_id) ==
    \E i \in DOMAIN policies : i # policy_id /\ policies[i].name = name

\* existing = select(Policy).where(Policy.name == payload.name).first();
\* 400 when there is one
CreatePolicyCheck(a, payload) ==
    /\ IF \E i \in DOMAIN policies : policies[i].name = payload.name
       THEN /\ admin[a].pc \in {"idle", "done"}
            /\ nreq < MaxRequests
            /\ nreq' = nreq + 1
            /\ admin' = [admin EXCEPT ![a] =
                            [NoAdmin EXCEPT !.op = "create_policy", !.pc = "done",
                                            !.payload = payload, !.code = 400]]
       ELSE Enter(a, "create_policy", "checked", 0, payload, NoRow)
    /\ UNCHANGED <<db, requests, seen>>

\* Policy(**payload.model_dump()), add, commit: the INSERT takes the next id
CreatePolicyCommit(a) ==
    /\ admin[a].op = "create_policy" /\ admin[a].pc = "checked"
    /\ ~NameTaken(admin[a].payload.name, 0)
    /\ LET id == Len(policies) + 1
           b == admin[a].payload
       IN /\ policies' = Append(policies,
                            Policy(id, b.name, b.description, b.scope, b.condition_type,
                                   b.is_active, b.organization_id))
          /\ admin' = [admin EXCEPT ![a].pc = "done", ![a].id = id, ![a].code = 200]
    /\ UNCHANGED <<models, versions, metrics, violations, audit, requests, seen, nreq>>

\* the INSERT violates the unique index: IntegrityError leaves the handler
CreatePolicyCommitFails(a) ==
    /\ admin[a].op = "create_policy" /\ admin[a].pc = "checked"
    /\ NameTaken(admin[a].payload.name, 0)
    /\ Respond(a, 500)
    /\ UNCHANGED <<db, requests, seen, nreq>>

create_policy(a, Payloads) ==
    \/ \E payload \in Payloads : CreatePolicyCheck(a, payload)
    \/ CreatePolicyCommit(a)
    \/ CreatePolicyCommitFails(a)

\* a request body: fields are the keys it sets, values their values
Body(fields, values) == [fields |-> fields, values |-> values]

\* a schema that passes every field of the body on
PolicyUpdateAnyField(body) == body

\* PolicyUpdate: the fields of the body that the schema declares; any other
\* field of the body is ignored
PolicyUpdate(body) ==
    Body(body.fields \cap {"name", "description", "is_active"}, body.values)

\* payload.model_dump(exclude_unset=True): the fields that the body sets
update_data(payload) == payload.fields

\* PATCH /policies/{id}: session.get, 404 when there is no such row
UpdatePolicyGet(a, policy_id, body) ==
    /\ IF policy_id \in DOMAIN policies
       THEN Enter(a, "update_policy", "loaded", policy_id, PolicyUpdate(body),
                  policies[policy_id])
       ELSE /\ admin[a].pc \in {"idle", "done"}
            /\ nreq < MaxRequests
            /\ nreq' = nreq + 1
            /\ admin' = [admin EXCEPT ![a] =
                            [NoAdmin EXCEPT !.op = "update_policy", !.pc = "done",
                                            !.id = policy_id, !.code = 404]]
    /\ UNCHANGED <<db, requests, seen>>

\* the columns of the UPDATE: setattr for every key of update_data, and the
\* UPDATE is emitted only for a column whose value differs from the loaded one
Changed(a) ==
    {key \in update_data(admin[a].payload) :
        admin[a].payload.values[key] # admin[a].loaded[key]}

\* session.add(policy); session.commit(); session.refresh(policy)
UpdatePolicyCommit(a) ==
    /\ admin[a].op = "update_policy" /\ admin[a].pc = "loaded"
    /\ ~("name" \in Changed(a) /\ NameTaken(admin[a].payload.values.name, admin[a].id))
    /\ policies' = [policies EXCEPT ![admin[a].id] =
                        [key \in DOMAIN @ |->
                            IF key \in Changed(a) THEN admin[a].payload.values[key]
                            ELSE @[key]]]
    /\ Respond(a, 200)
    /\ UNCHANGED <<models, versions, metrics, violations, audit, requests, seen, nreq>>

\* the UPDATE violates the unique index: IntegrityError leaves the handler
UpdatePolicyCommitFails(a) ==
    /\ admin[a].op = "update_policy" /\ admin[a].pc = "loaded"
    /\ "name" \in Changed(a) /\ NameTaken(admin[a].payload.values.name, admin[a].id)
    /\ Respond(a, 500)
    /\ UNCHANGED <<db, requests, seen, nreq>>

update_policy(a, Ids, Bodies) ==
    \/ \E policy_id \in Ids, body \in Bodies : UpdatePolicyGet(a, policy_id, body)
    \/ UpdatePolicyCommit(a)
    \/ UpdatePolicyCommitFails(a)

----------------------------------------------------------------------------
(* Spec: one request at a time on model 1, over every registry of two      *)
(* global policies; model 2 is another entity with its own version.        *)

EngineModels ==
    {<<OfOrganization(ModelRegistry(1, risk, "draft"), None),
       OfOrganization(ModelRegistry(2, "high", "draft"), None)>> :
        risk \in {"limited", "high", "unacceptable"}}

EnginePolicies ==
    {<<Policy(1, "p1", None, "global", c1, a1, None),
       Policy(2, "p2", "desc", "global", c2, a2, None)>> :
        c1 \in PolicyConditionType, c2 \in PolicyConditionType,
        a1 \in BOOLEAN, a2 \in BOOLEAN}

Init ==
    /\ InitRequests
    /\ \E ms \in EngineModels, ps \in EnginePolicies : InitTables(ms, ps)

Next ==
    \/ update_compliance_status(1, {1}, ComplianceStatus)
    \/ \E version_id \in {1, 2} : add_metric(version_id)

Spec == Init /\ [][Next]_vars

----------------------------------------------------------------------------
(* SpecRegistry: one request at a time on model 1 of any tenant, while an  *)
(* administrator switches policies of any tenant on and off.               *)

RegistryModels ==
    {<<OfOrganization(ModelRegistry(1, "high", "draft"), org),
       OfOrganization(ModelRegistry(2, "high", "draft"), None)>> :
        org \in {None, "T1", "T2"}}

RegistryPolicies ==
    {<<Policy(1, "p1", None, IF o1 = None THEN "global" ELSE "organization",
              "block_high_risk_without_approval", a1, o1),
       Policy(2, "p2", "desc", IF o2 = None THEN "global" ELSE "organization",
              "require_evaluation_before_approval", a2, o2)>> :
        o1 \in {None, "T1", "T2"}, o2 \in {None, "T1", "T2"},
        a1 \in BOOLEAN, a2 \in BOOLEAN}

InitRegistry ==
    /\ InitRequests
    /\ \E ms \in RegistryModels, ps \in RegistryPolicies : InitTables(ms, ps)

NextRegistry ==
    \/ update_compliance_status(1, {1}, ComplianceStatus)
    \/ \E policy_id \in {1, 2}, is_active \in BOOLEAN :
          update_policy_is_active(policy_id, is_active)
    \/ \E policy_id \in {1, 2} : delete_policy(policy_id)

SpecRegistry == InitRegistry /\ [][NextRegistry]_vars

----------------------------------------------------------------------------
(* SpecConcurrent: two requests in flight on one high-risk model under one *)
(* active block_high_risk_without_approval policy.                         *)

ConcurrentModels ==
    {<<OfOrganization(ModelRegistry(1, risk, status), None)>> :
        risk \in HighRisk, status \in ComplianceStatus}

ConcurrentPolicies ==
    {<<Policy(1, "p1", None, "global", "block_high_risk_without_approval", TRUE, None)>>}

InitConcurrent ==
    /\ InitRequests
    /\ \E ms \in ConcurrentModels, ps \in ConcurrentPolicies : InitTables(ms, ps)

NextConcurrent ==
    \E r \in Procs : update_compliance_status(r, {1}, ComplianceStatus)

SpecConcurrent == InitConcurrent /\ [][NextConcurrent]_vars

----------------------------------------------------------------------------
(* SpecUnregistered: one request at a time on a high-risk model, where the *)
(* first stored policy has a condition type that POLICY_CHECKS does not    *)
(* list.                                                                   *)

\* a condition_type for which POLICY_CHECKS.get returns None
UnregisteredCondition == "unregistered_condition"

UnregisteredModels ==
    {<<OfOrganization(ModelRegistry(1, risk, "draft"), None),
       OfOrganization(ModelRegistry(2, "high", "draft"), None)>> :
        risk \in HighRisk}

UnregisteredPolicies ==
    {<<Policy(1, "p1", None, "global", UnregisteredCondition, a1, None),
       Policy(2, "p2", "desc", "global", c2, a2, None)>> :
        c2 \in PolicyConditionType, a1 \in BOOLEAN, a2 \in BOOLEAN}

InitUnregistered ==
    /\ InitRequests
    /\ \E ms \in UnregisteredModels, ps \in UnregisteredPolicies : InitTables(ms, ps)

NextUnregistered ==
    \/ update_compliance_status(1, {1}, ComplianceStatus)
    \/ \E version_id \in {1, 2} : add_metric(version_id)

SpecUnregistered == InitUnregistered /\ [][NextUnregistered]_vars

----------------------------------------------------------------------------
(* SpecEntities: models are created, their risk profile is updated and     *)
(* their status is changed, under one active                               *)
(* block_high_risk_without_approval policy.                                *)

EntityModels ==
    {<<OfOrganization(ModelRegistry(1, risk, "draft"), None)>> : risk \in {"limited", "high"}}

\* the risk levels of the payloads; Unset: a payload with other fields only
EntityRisks == {"limited", "high", Unset}

InitEntities ==
    /\ InitRequests
    /\ \E ms \in EntityModels :
          /\ models = ms
          /\ seen = [i \in DOMAIN ms |-> {ms[i].compliance_status}]
    /\ policies = <<Policy(1, "p1", None, "global", "block_high_risk_without_approval",
                           TRUE, None)>>
    /\ versions = <<[id |-> 1, model_id |-> 1]>>
    /\ metrics = <<>>
    /\ violations = <<>>
    /\ audit = <<>>

NextEntities ==
    \/ update_compliance_status(1, {1, 2}, ComplianceStatus)
    \/ \E a \in Admins : create_model(a, {"unclassified", "high"})
    \/ \E a \in Admins : update_risk_profile(a, {1, 2}, EntityRisks)

SpecEntities == InitEntities /\ [][NextEntities]_vars

----------------------------------------------------------------------------
(* SpecPolicies: an administrator creates, updates and deactivates         *)
(* policies, two requests at a time, while the status of a high-risk model *)
(* is changed.                                                             *)

PolicyModels ==
    <<OfOrganization(ModelRegistry(1, "high", "draft"), None),
      OfOrganization(ModelRegistry(2, "high", "draft"), None)>>

StoredPolicies ==
    <<Policy(1, "p1", None, "global", "block_high_risk_without_approval", TRUE, None)>>

\* bodies of POST /policies/
CreateBodies ==
    {Policy(0, name, None, "global", "require_evaluation_before_approval", TRUE, None) :
        name \in {"p1", "p2"}}

\* bodies of PATCH /policies/{id}: any set of fields, two of which the schema
\* PolicyUpdate does not declare
UpdateBodies ==
    {Body(fields, [name |-> "p2", description |-> "desc", is_active |-> FALSE,
                   condition_type |-> "require_review_for_high_risk",
                   scope |-> "organization"]) :
        fields \in {{"name"}, {"description"}, {"is_active"}, {"name", "condition_type"},
                    {"description", "condition_type", "scope"}}}
    \cup {Body({"is_active"}, [name |-> "p2", description |-> "desc", is_active |-> TRUE,
                               condition_type |-> "require_review_for_high_risk",
                               scope |-> "organization"])}

InitPolicies ==
    /\ InitRequests
    /\ InitTables(PolicyModels, StoredPolicies)

NextPolicies ==
    \/ update_compliance_status(1, {1}, {"under_review", "approved"})
    \/ \E a \in Admins : create_policy(a, CreateBodies)
    \/ \E a \in Admins : update_policy(a, {1, 2}, UpdateBodies)
    \/ \E policy_id \in {1, 2} : delete_policy(policy_id)

SpecPolicies == InitPolicies /\ [][NextPolicies]_vars

----------------------------------------------------------------------------
(* SpecValidation: one request at a time on a high-risk model, with bodies *)
(* whose status is, or is not, a value of ComplianceStatus.                *)

\* status strings that are not values of the enum (its values are lower case)
InvalidStatuses == {"archived", "APPROVED"}

ValidationPolicies ==
    {<<Policy(1, "p1", None, "global", "block_high_risk_without_approval", a1, None),
       Policy(2, "p2", "desc", "global", "require_evaluation_before_approval", a2, None)>> :
        a1 \in BOOLEAN, a2 \in BOOLEAN}

InitValidation ==
    /\ InitRequests
    /\ \E ps \in ValidationPolicies : InitTables(PolicyModels, ps)

NextValidation ==
    \/ update_compliance_status(1, {1}, ComplianceStatus \cup InvalidStatuses)
    \/ \E status \in ComplianceStatus \cup InvalidStatuses : RejectStatus(1, 1, status)

SpecValidation == InitValidation /\ [][NextValidation]_vars

----------------------------------------------------------------------------
(* SpecSelection: one request at a time on a high-risk model of any        *)
(* tenant, or of none, where the stored policies carry any combination of  *)
(* scope and organization.                                                 *)

SelectionModels ==
    {<<OfOrganization(ModelRegistry(1, "high", "draft"), org),
       OfOrganization(ModelRegistry(2, "high", "draft"), None)>> :
        org \in {None, Zero, "T1", "T2"}}

SelectionPolicies ==
    {<<Policy(1, "p1", None, s1, "block_high_risk_without_approval", a1, o1),
       Policy(2, "p2", "desc", "organization", "require_evaluation_before_approval", TRUE, o2)>> :
        s1 \in {"global", "organization"}, o1 \in {None, "T1", "T2"}, a1 \in BOOLEAN,
        o2 \in {None, "T1"}}

InitSelection ==
    /\ InitRequests
    /\ \E ms \in SelectionModels, ps \in SelectionPolicies : InitTables(ms, ps)

NextSelection == update_compliance_status(1, {1}, {"under_review", "approved"})

SpecSelection == InitSelection /\ [][NextSelection]_vars

----------------------------------------------------------------------------
(* SpecEvidence: versions and metrics are added while the status of a      *)
(* model is changed under an active require_evaluation_before_approval     *)
(* policy.                                                                 *)

EvidenceModels ==
    {<<OfOrganization(ModelRegistry(1, risk, "draft"), None),
       OfOrganization(ModelRegistry(2, "high", "draft"), None)>> :
        risk \in {"limited", "high"}}

EvidencePolicies ==
    <<Policy(1, "p1", "desc", "global", "require_evaluation_before_approval", TRUE, None)>>

InitEvidence ==
    /\ InitRequests
    /\ \E ms \in EvidenceModels : InitTables(ms, EvidencePolicies)

NextEvidence ==
    \/ update_compliance_status(1, {1}, {"approved", "retired"})
    \/ \E version_id \in {1, 2, 3} : add_metric(version_id)
    \/ \E a \in Admins : create_version(a, {1, 2})

SpecEvidence == InitEvidence /\ [][NextEvidence]_vars

----------------------------------------------------------------------------
(* SpecChain: two requests in flight on one new high-risk model, a draft    *)
(* with an empty audit log, under one active                               *)
(* block_high_risk_without_approval policy.                                *)

ChainModels == <<OfOrganization(ModelRegistry(1, "high", "draft"), None)>>

InitChain ==
    /\ InitRequests
    /\ \E ps \in ConcurrentPolicies : InitTables(ChainModels, ps)

NextChain ==
    \E r \in Procs : update_compliance_status(r, {1}, ComplianceStatus)

SpecChain == InitChain /\ [][NextChain]_vars

----------------------------------------------------------------------------
(* Vocabulary of the properties *)

Range(s) == {s[i] : i \in DOMAIN s}

\* the first policy of request r's list whose check is unsatisfied now, 0 if none
FirstUnsatisfied(r) ==
    LET bad == {i \in DOMAIN req[r].policies :
                    ~Satisfied(req[r].policies[i], req[r].model, req[r].status)}
    IN IF bad = {} THEN 0 ELSE CHOOSE i \in bad : \A j \in bad : i <= j

\* request r took this step
Steps(r) == pc'[r] # pc[r] \/ req'[r] # req[r]

\* request r ran to its end with no failing database statement
Finished(r) == pc[r] = "done" /\ req[r].fault = None /\ resp[r].code \in {200, 403}

\* the status request r loaded with the model row
LoadedStatus(r) ==
    IF req[r].old_status # None THEN req[r].old_status ELSE req[r].model.compliance_status

\* a metric is recorded on a version of the model
HasEvidence(model_id) ==
    \E m \in DOMAIN metrics : versions[metrics[m].version_id].model_id = model_id

\* the stored policies that are active, as a set of ids
ActiveIds == {i \in DOMAIN policies : policies[i].is_active}

\* exactly one stored policy is active, and it is a block_high_risk_without_approval
OneActiveBlockPolicy ==
    /\ Cardinality(ActiveIds) = 1
    /\ \A i \in ActiveIds : policies[i].condition_type = "block_high_risk_without_approval"

----------------------------------------------------------------------------
(* C1 *)

\* C1: short-circuit.  A step writes to the violation log only as the denial of
\* one enforcement call: it appends exactly one record, for the first policy of
\* the call's list whose predicate is unsatisfied, returns allowed = false with
\* that policy and ends the call, so nothing is written for the policies after
\* it; and a call returns allowed = true only if no policy of its list is
\* unsatisfied.
C1_ShortCircuit ==
    [][/\ violations' # violations =>
            \E r \in Procs :
                LET k == FirstUnsatisfied(r) IN
                /\ pc[r] = "checking" /\ pc'[r] = "done"
                /\ k # 0
                /\ violations' = Append(violations, Last(violations'))
                /\ Last(violations').policy_id = req[r].policies[k].id
                /\ Last(violations').model_id = req[r].model_id
                /\ req'[r].result.allowed = FALSE
                /\ req'[r].result.policy_id = req[r].policies[k].id
       /\ \A r \in Procs :
            (pc[r] = "checking" /\ pc'[r] = "allowed") => FirstUnsatisfied(r) = 0
      ]_vars

\* a call denied by the first of two policies that are both unsatisfied
C1_Witness ==
    /\ pc[1] = "done" /\ resp[1].code = 403
    /\ Len(req[1].policies) = 2
    /\ req[1].result.policy_id = req[1].policies[1].id
    /\ ~Satisfied(req[1].policies[2], req[1].model, req[1].status)
    /\ Len(violations) = 1

----------------------------------------------------------------------------
(* C2 *)

\* C2: fail closed.  A request whose policy read or whose commit of the
\* violation and audit rows failed has not returned allowed = true, has ended
\* with a server error, has written no violation, and the stored status of its
\* entity is the one it loaded.
C2_FailClosed ==
    \A r \in Procs :
        req[r].fault \in {"policy_read", "violation_commit"} =>
            /\ pc[r] = "done"
            /\ resp[r].code = 500
            /\ ~req[r].result.allowed
            /\ models[req[r].model_id].compliance_status = req[r].model.compliance_status

\* the commit of a violation failed on the approval of a draft: no record, a 500
C2_Witness ==
    /\ req[1].fault = "violation_commit"
    /\ req[1].status = "approved"
    /\ resp[1].code = 500
    /\ violations = <<>>
    /\ models[1].compliance_status = "draft"

----------------------------------------------------------------------------
(* C3 *)

\* C3: review before approval.  A high or unacceptable risk entity under an
\* active block_high_risk_without_approval policy is stored as approved only if
\* it was stored as under_review before.
C3_ReviewBeforeApproval ==
    \A m \in DOMAIN models :
        (/\ models[m].risk_level \in HighRisk
         /\ \E p \in get_active_policies(models[m].organization_id) :
                p.condition_type = "block_high_risk_without_approval"
         /\ models[m].compliance_status = "approved")
        => "under_review" \in seen[m]

----------------------------------------------------------------------------
(* C4 *)

\* C4: concurrent transitions.  With an active block_high_risk_without_approval
\* policy, the stored status of a high-risk entity never changes from draft to
\* approved in one step, however two requests interleave.
C4_NoDraftToApproved ==
    [][\A m \in DOMAIN models :
          (/\ models[m].risk_level \in HighRisk
           /\ \E p \in get_active_policies(models[m].organization_id) :
                  p.condition_type = "block_high_risk_without_approval")
          => ~(models[m].compliance_status = "draft"
               /\ models'[m].compliance_status = "approved")
      ]_vars

----------------------------------------------------------------------------
(* C5 *)

\* C5: inactive-policy exclusion.  The policy list an enforcement call reads
\* holds no policy that is stored as inactive at that moment, and a violation
\* is recorded only for a policy of the call's list.
C5_InactiveNeverBlocks ==
    [][\A r \in Procs :
          /\ (pc[r] = "loaded" /\ pc'[r] = "checking") =>
                \A i \in DOMAIN req'[r].policies :
                    policies[req'[r].policies[i].id].is_active
          /\ (Steps(r) /\ violations' # violations) =>
                \E i \in DOMAIN req[r].policies :
                    /\ req[r].policies[i].id = Last(violations').policy_id
                    /\ req[r].policies[i].is_active
      ]_vars

\* a call is allowed while an inactive policy's predicate is unsatisfied
C5_Witness ==
    /\ pc[1] = "allowed"
    /\ req[1].status = "approved"
    /\ req[1].model.compliance_status = "draft"
    /\ ~policies[1].is_active
    /\ ~Satisfied(policies[1], req[1].model, req[1].status)
    /\ \A i \in DOMAIN req[1].policies : req[1].policies[i].id # 1

----------------------------------------------------------------------------
(* C6 *)

\* C6: tenant isolation.  No violation record, and no denial, joins a policy
\* of one organization with an entity that belongs to another organization.
C6_TenantIsolation ==
    /\ \A i \in DOMAIN violations :
          LET p == policies[violations[i].policy_id]
              m == models[violations[i].model_id]
          IN ~(p.organization_id # None /\ m.organization_id # None
               /\ p.organization_id # m.organization_id)
    /\ \A r \in Procs :
          (pc[r] = "done" /\ resp[r].code = 403) =>
              LET p == policies[req[r].result.policy_id]
                  m == models[req[r].model_id]
              IN ~(p.organization_id # None /\ m.organization_id # None
                   /\ p.organization_id # m.organization_id)

\* an entity of T2 is allowed while an active policy of T1 is unsatisfied
C6_Witness ==
    /\ pc[1] = "allowed"
    /\ models[1].organization_id = "T2"
    /\ policies[1].organization_id = "T1"
    /\ policies[1].is_active
    /\ ~Satisfied(policies[1], req[1].model, req[1].status)

----------------------------------------------------------------------------
(* C7 *)

\* C7: the allow path has no side effects.  No step of an enforcement call
\* that goes on or returns allowed = true changes the violation log, the audit
\* log or any other table; and whenever a call has returned allowed = true, a
\* second call on the stored rows is allowed too: every policy it would read
\* is satisfied.
C7_AllowHasNoSideEffects ==
    /\ [](\A r \in Procs :
            pc[r] = "allowed" =>
                /\ req[r].result.allowed
                /\ \A p \in get_active_policies(models[req[r].model_id].organization_id) :
                        Satisfied(p, models[req[r].model_id], req[r].status))
    /\ [][\A r \in Procs :
            (/\ pc[r] \in {"loaded", "checking"}
             /\ pc'[r] \in {"checking", "allowed"}
             /\ Steps(r)) => db' = db
         ]_vars

\* a second call in a row is allowed for the same transition, nothing recorded
C7_Witness ==
    /\ pc[1] = "allowed"
    /\ nreq = 2
    /\ Len(req[1].policies) = 2
    /\ violations = <<>>
    /\ Len(audit) = 1
    /\ audit[1].action = "COMPLIANCE_STATUS_CHANGE"
    /\ audit[1].details.from = audit[1].details.to
    /\ audit[1].details.to = req[1].status

----------------------------------------------------------------------------
(* C8 *)

\* the condition under which the claim says the policy is unsatisfied
C8_Unsatisfied(risk_level, current_status, new_status) ==
    /\ risk_level \in {"high", "unacceptable"}
    /\ new_status = "approved"
    /\ current_status = "draft"

\* C8: a request that read only block_high_risk_without_approval policies and
\* ran to its end is denied exactly when the entity's risk level is high or
\* unacceptable, the proposed status is approved and the loaded status is
\* draft; the denial has status 403, names the first policy of the list in its
\* result, carries the policy's name in its message, and a violation with that
\* policy_id is in the log.
C8_BlockHighRisk ==
    \A r \in Procs :
        (/\ Finished(r)
         /\ req[r].policies # <<>>
         /\ \A i \in DOMAIN req[r].policies :
                req[r].policies[i].condition_type = "block_high_risk_without_approval")
        => /\ resp[r].code = 403 <=>
                C8_Unsatisfied(req[r].model.risk_level, LoadedStatus(r), req[r].status)
           /\ resp[r].code = 403 =>
                /\ ~req[r].result.allowed
                /\ req[r].result.policy_id = req[r].policies[1].id
                /\ req[r].policies[1].name \in Range(req[r].result.message)
                /\ \E i \in DOMAIN violations :
                      /\ violations[i].policy_id = req[r].policies[1].id
                      /\ violations[i].model_id = req[r].model_id
                      /\ violations[i].details.attempted_status = "approved"

\* scenario A: one active policy, the approval of a high-risk draft is denied
C8_Witness ==
    /\ Finished(1)
    /\ resp[1].code = 403
    /\ OneActiveBlockPolicy
    /\ Len(req[1].policies) = 1
    /\ models[1].risk_level = "high"
    /\ models[1].compliance_status = "draft"
    /\ Len(violations) = 1

----------------------------------------------------------------------------
(* C9 *)

\* audit row i records a committed status change from one status to another
StatusChange(i, from, to) ==
    /\ i \in DOMAIN audit
    /\ audit[i].action = "COMPLIANCE_STATUS_CHANGE"
    /\ audit[i].details.from = from
    /\ audit[i].details.to = to

\* the entity of scenario B: high risk, one active policy, of the block kind
C9_Scenario ==
    /\ models[1].risk_level \in HighRisk
    /\ OneActiveBlockPolicy

\* C9: scenario B.  The first request, draft to under_review, that runs to its
\* end is allowed and applied; a second request, to approved, that follows it
\* and runs to its end is allowed and applied: the stored status is approved
\* and no violation is recorded.
C9_ScenarioB ==
    C9_Scenario =>
        /\ (nreq = 1 /\ Finished(1) /\ req[1].status = "under_review") =>
                /\ resp[1].code = 200
                /\ models[1].compliance_status = "under_review"
                /\ violations = <<>>
        /\ (/\ nreq = 2 /\ Finished(1) /\ req[1].status = "approved"
            /\ StatusChange(1, "draft", "under_review")) =>
                /\ resp[1].code = 200
                /\ models[1].compliance_status = "approved"
                /\ violations = <<>>

\* the end of scenario B
C9_Witness ==
    /\ C9_Scenario
    /\ nreq = 2 /\ Finished(1) /\ req[1].status = "approved"
    /\ Len(audit) = 2
    /\ StatusChange(1, "draft", "under_review")
    /\ StatusChange(2, "under_review", "approved")
    /\ models[1].compliance_status = "approved"

----------------------------------------------------------------------------
(* C10 *)

\* C10: at the moment the loop tests a require_evaluation_before_approval
\* policy, the test fails exactly when the proposed status is approved and no
\* version of that entity has a metric: a passing turn has another target or
\* evidence on the entity's own versions, a failing turn has neither.
C10_RequireEvaluation ==
    [][\A r \in Procs :
          (/\ pc[r] = "checking"
           /\ Steps(r)
           /\ req[r].idx <= Len(req[r].policies)
           /\ req[r].policies[req[r].idx].condition_type
                  = "require_evaluation_before_approval")
          => /\ pc'[r] = "checking" =>
                    (req[r].status # "approved" \/ HasEvidence(req[r].model_id))
             /\ pc'[r] = "done" =>
                    (req[r].status = "approved" /\ ~HasEvidence(req[r].model_id))
      ]_vars

\* scenario C: denied without evidence, allowed after one metric was added
C10_Witness ==
    /\ Finished(1) /\ resp[1].code = 200 /\ req[1].status = "approved"
    /\ \E i \in DOMAIN req[1].policies :
          req[1].policies[i].condition_type = "require_evaluation_before_approval"
    /\ Len(violations) = 1
    /\ violations[1].model_id = 1
    /\ violations[1].details.policy_condition = "require_evaluation_before_approval"
    /\ violations[1].details.attempted_status = "approved"
    /\ Len(metrics) = 1
    /\ HasEvidence(1)

----------------------------------------------------------------------------
(* C11 *)

\* C11: unknown predicate tolerance.  No violation and no denial names a
\* policy whose condition type has no entry in POLICY_CHECKS; and the turn of
\* the loop on such a policy only moves on to the next policy of the list: it
\* writes nothing, raises nothing, and gives no response.
C11_UnknownPredicateSkipped ==
    /\ [](/\ \A i \in DOMAIN violations :
                policies[violations[i].policy_id].condition_type \in POLICY_CHECKS
          /\ \A r \in Procs :
                (pc[r] = "done" /\ resp[r].code = 403) =>
                    policies[req[r].result.policy_id].condition_type \in POLICY_CHECKS)
    /\ [][\A r \in Procs :
            (/\ pc[r] = "checking"
             /\ Steps(r)
             /\ req[r].idx <= Len(req[r].policies)
             /\ req[r].policies[req[r].idx].condition_type \notin POLICY_CHECKS)
            => /\ pc'[r] = "checking"
               /\ req'[r] = [req[r] EXCEPT !.idx = @ + 1]
               /\ req'[r].fault = None
               /\ resp'[r] = resp[r]
               /\ db' = db
         ]_vars

\* the unregistered policy was first in the list and was skipped; the policy
\* after it was evaluated and denied the request
C11_Witness ==
    /\ Finished(1) /\ resp[1].code = 403
    /\ Len(req[1].policies) = 2
    /\ req[1].policies[1].condition_type \notin POLICY_CHECKS
    /\ req[1].policies[1].is_active
    /\ req[1].result.policy_id = req[1].policies[2].id
    /\ Len(violations) = 1

----------------------------------------------------------------------------
(* C12 *)

\* the audit rows that record a policy violation
ViolationAudits == {i \in DOMAIN audit : audit[i].action = "POLICY_VIOLATION"}

\* in this step the enforcement call of request r returns allowed = false
ReturnsDenied(r) ==
    /\ pc[r] = "checking" /\ pc'[r] = "done"
    /\ req'[r].result # NoResult
    /\ ~req'[r].result.allowed

\* C12: denial records are atomic and complete.  In every state there are as
\* many violation records as audit entries with action POLICY_VIOLATION; and a
\* step adds a violation record exactly when an enforcement call returns
\* allowed = false in it, and then it adds one record and one such audit
\* entry, so both counts equal the number of calls that returned denied.
C12_DenialRecordsAtomic ==
    /\ [](Len(violations) = Cardinality(ViolationAudits))
    /\ [][/\ (violations' # violations) <=> (\E r \in Procs : ReturnsDenied(r))
          /\ (violations' # violations) =>
                /\ Len(violations') = Len(violations) + 1
                /\ Len(audit') = Len(audit) + 1
                /\ Last(audit').action = "POLICY_VIOLATION"
                /\ Last(audit').details.policy_id = Last(violations').policy_id
         ]_vars

\* two requests were denied: two violation records, two audit entries
C12_Witness ==
    /\ nreq = 2 /\ Finished(1) /\ resp[1].code = 403
    /\ Len(violations) = 2
    /\ Cardinality(ViolationAudits) = 2

----------------------------------------------------------------------------
(* C13 *)

\* C13: a successful transition and its audit entry are one atomic unit.
\* Whenever no request is in flight, every request that committed a change of
\* its entity's status, also one that failed at a later statement, has its
\* COMPLIANCE_STATUS_CHANGE entry in the audit log.
C13_StatusChangeAudited ==
    (\A r \in Procs : pc[r] \in {"idle", "done"}) =>
        \A r \in Procs :
            (req[r].old_status # None /\ req[r].old_status # req[r].status) =>
                \E i \in DOMAIN audit :
                    /\ audit[i].entity_id = req[r].model_id
                    /\ StatusChange(i, req[r].old_status, req[r].status)

----------------------------------------------------------------------------
(* C14 *)

\* in this step a transition of model m that the coordinator allowed is applied
AllowedTransitionApplied(m) ==
    \E r \in Procs :
        /\ pc[r] = "allowed" /\ pc'[r] = "applied"
        /\ req[r].model_id = m
        /\ req[r].result.allowed
        /\ models'[m] = [models[m] EXCEPT !.compliance_status = req[r].status]

\* C14, as claimed: the risk level and the compliance status of a stored
\* entity change only in the step that applies a transition the enforcement
\* coordinator allowed, and a created entity starts at draft.
C14_OnlyThroughCoordinator ==
    [][/\ \A m \in DOMAIN models :
            (\/ models'[m].risk_level # models[m].risk_level
             \/ models'[m].compliance_status # models[m].compliance_status)
            => AllowedTransitionApplied(m)
       /\ \A m \in DOMAIN models' \ DOMAIN models : models'[m].compliance_status = "draft"
      ]_vars

\* C14, amended: the compliance status of a stored entity changes only in the
\* step that applies a transition the enforcement coordinator allowed, and a
\* created entity starts at draft; the risk level is set at creation and is
\* changed only by update_risk_profile, directly, to the level of its
\* payload, with the status left as it is.
C14_StatusOnlyThroughCoordinator ==
    [][/\ \A m \in DOMAIN models :
            /\ models'[m].compliance_status # models[m].compliance_status
                    => AllowedTransitionApplied(m)
            /\ models'[m].risk_level # models[m].risk_level
                    => \E a \in Admins :
                          /\ admin[a].op = "update_risk_profile"
                          /\ admin[a].pc = "loaded" /\ admin'[a].pc = "committed"
                          /\ admin[a].id = m
                          /\ models'[m] =
                                [models[m] EXCEPT !.risk_level = admin[a].payload.risk_level]
       /\ \A m \in DOMAIN models' \ DOMAIN models : models'[m].compliance_status = "draft"
      ]_vars

\* a high-risk draft was set to limited by update_risk_profile and then
\* approved by a transition that the coordinator allowed
C14_Witness ==
    /\ Len(audit) = 2
    /\ audit[1].action = "UPDATE_RISK_PROFILE" /\ audit[1].details.risk_level = "limited"
    /\ StatusChange(2, "draft", "approved")
    /\ models[1].risk_level = "limited"
    /\ models[1].compliance_status = "approved"
    /\ \E a \in Admins :
          /\ admin[a].op = "update_risk_profile"
          /\ admin[a].loaded.risk_level = "high"
    /\ violations = <<>>

----------------------------------------------------------------------------
(* C15 *)

\* C15: denial leaves the entity untouched.  No step of the enforcement call
\* of a request (the policy read, a turn of the loop, the return) changes a
\* stored entity, and the only audit entry such a step writes is a
\* POLICY_VIOLATION; and once a request is denied, its entity is stored with
\* the status and the risk level the request loaded, and the request's last
\* write to the audit log is the POLICY_VIOLATION entry, not a
\* COMPLIANCE_STATUS_CHANGE.
C15_DenialLeavesEntity ==
    /\ [](\A r \in Procs :
            (pc[r] = "done" /\ resp[r].code = 403) =>
                /\ models[req[r].model_id] = req[r].model
                /\ req[r].old_status = None
                /\ Last(audit).action = "POLICY_VIOLATION"
                /\ Last(audit).entity_id = req[r].model_id)
    /\ [][\A r \in Procs :
            (Steps(r) /\ pc[r] \in {"loaded", "checking"}) =>
                /\ models' = models
                /\ audit' # audit =>
                      /\ Len(audit') = Len(audit) + 1
                      /\ Last(audit').action = "POLICY_VIOLATION"
         ]_vars

\* the approval of an entity under review was denied: it is still under review
C15_Witness ==
    /\ Finished(1) /\ resp[1].code = 403
    /\ nreq = 2
    /\ StatusChange(1, "draft", "under_review")
    /\ models[1].compliance_status = "under_review"
    /\ req[1].status = "approved"
    /\ Len(audit) = 2

----------------------------------------------------------------------------
(* C16 *)

----------------------------------------------------------------------------
(* C17 *)

\* in this step the update_policy request of slot a commits
UpdateCommits(a) ==
    /\ admin[a].op = "update_policy"
    /\ admin[a].pc = "loaded" /\ admin'[a].pc = "done"

\* the stored policy i keeps these columns in this step
Keeps(i, columns) == \A key \in columns : policies'[i][key] = policies[i][key]

\* C17, as claimed: a step of update_policy changes no policy's
\* condition_type, scope, name, organization_id or id.
C17_OnlyDescriptionAndFlag ==
    [][\A a \in Admins :
          UpdateCommits(a) =>
              /\ DOMAIN policies' = DOMAIN policies
              /\ \A i \in DOMAIN policies :
                    Keeps(i, {"condition_type", "scope", "name", "organization_id", "id"})
      ]_vars

\* C17, amended: a step of update_policy changes no policy's condition_type,
\* scope, organization_id or id, also when the request body names them; it
\* changes one row only, the one of the request, and there only the name, the
\* description and the active flag, each to the value of the body.
C17_UpdateRestricted ==
    [][\A a \in Admins :
          UpdateCommits(a) =>
              /\ DOMAIN policies' = DOMAIN policies
              /\ \A i \in DOMAIN policies :
                    /\ Keeps(i, {"condition_type", "scope", "organization_id", "id"})
                    /\ i # admin[a].id => policies'[i] = policies[i]
              /\ \A key \in {"name", "description", "is_active"} :
                    policies'[admin[a].id][key] # policies[admin[a].id][key] =>
                        /\ key \in admin[a].payload.fields
                        /\ policies'[admin[a].id][key] = admin[a].payload.values[key]
      ]_vars

\* an update renamed policy 1, which keeps the condition_type it was created
\* with
C17_Witness ==
    \E a \in Admins :
        /\ admin[a].op = "update_policy" /\ admin[a].pc = "done" /\ admin[a].code = 200
        /\ admin[a].id = 1
        /\ admin[a].loaded.name = "p1"
        /\ policies[1].name = "p2"
        /\ policies[1].condition_type = "block_high_risk_without_approval"

----------------------------------------------------------------------------
(* C18 *)

\* C18: policies are never hard-deleted.  Every violation record refers to a
\* stored policy; no step removes a policy row or changes its id; and a
\* delete_policy step, the one step that changes the policy table while no
\* request slot moves, only sets is_active of one row to false.
C18_NoHardDelete ==
    /\ [](\A v \in DOMAIN violations : violations[v].policy_id \in DOMAIN policies)
    /\ [][/\ DOMAIN policies \subseteq DOMAIN policies'
          /\ \A i \in DOMAIN policies : policies'[i].id = policies[i].id
          /\ (policies' # policies /\ admin' = admin /\ requests' = requests) =>
                \E i \in DOMAIN policies :
                    policies' = [policies EXCEPT ![i].is_active = FALSE]
         ]_vars

\* the policy of a recorded violation was deleted afterwards: it is stored,
\* inactive
C18_Witness ==
    /\ Len(violations) = 1
    /\ violations[1].policy_id = 1
    /\ 1 \in DOMAIN policies
    /\ ~policies[1].is_active
    /\ \A a \in Admins : admin[a].op # "update_policy"

----------------------------------------------------------------------------
(* C19 *)

\* the sequence t is s with rows added at its end
Extends(t, s) == Len(s) <= Len(t) /\ SubSeq(t, 1, Len(s)) = s

\* C19: the violation log and the audit log are append-only.  Across every
\* step each log is its previous value with rows added at the end: no record
\* is modified or removed.
C19_AppendOnly ==
    [][Extends(violations', violations) /\ Extends(audit', audit)]_vars

\* two handlers have written to the logs, one after the other: the rows of
\* the denial are still the first ones
C19_Witness ==
    /\ Len(violations) = 1
    /\ violations[1].model_id = 1
    /\ Len(audit) = 2
    /\ audit[1].action = "POLICY_VIOLATION"
    /\ audit[2].action = "UPDATE_RISK_PROFILE"

----------------------------------------------------------------------------
(* C20 *)

\* request r carries a status that is not a value of ComplianceStatus
InvalidState(r) == req[r].status \notin ComplianceStatus \cup {None}

\* C20: InvalidState.  A request whose status is not one of draft,
\* under_review, approved, retired has ended with the client error 422 with
\* no model loaded, no policy read and no check made; the step that rejects
\* it writes nothing to any table; and no entity is ever stored with a
\* status outside the four.
C20_InvalidStateRejected ==
    /\ [](/\ \A r \in Procs :
                InvalidState(r) =>
                    /\ pc[r] = "done"
                    /\ resp[r].code = 422
                    /\ req[r].model = NoRow
                    /\ req[r].policies = <<>> /\ req[r].idx = 0
                    /\ req[r].result = NoResult
          /\ \A m \in DOMAIN models : models[m].compliance_status \in ComplianceStatus)
    /\ [][\A r \in Procs :
            (resp'[r].code = 422 /\ (pc'[r] # pc[r] \/ req'[r] # req[r] \/ nreq' # nreq))
            => db' = db
         ]_vars

\* the entity was moved to under_review, then a request for "archived" was
\* rejected and the entity is still under review
C20_Witness ==
    /\ pc[1] = "done" /\ resp[1].code = 422
    /\ req[1].status = "archived"
    /\ nreq = 2
    /\ Len(audit) = 1
    /\ StatusChange(1, "draft", "under_review")
    /\ models[1].compliance_status = "under_review"
    /\ violations = <<>>

----------------------------------------------------------------------------
(* C21 *)

\* C21: policy writes are visible to the next enforcement call.  The list an
\* enforcement call reads holds exactly the policy rows that are stored as
\* active at that moment, with their stored content: every create, update
\* and deactivation committed before the read is in it.
C21_PolicyWritesVisible ==
    [][\A r \in Procs :
          (pc[r] = "loaded" /\ pc'[r] = "checking") =>
              /\ \A i \in DOMAIN policies :
                    policies[i].is_active <=>
                        \E k \in DOMAIN req'[r].policies : req'[r].policies[k] = policies[i]
              /\ Len(req'[r].policies) = Cardinality(ActiveIds)
      ]_vars

\* policy 1 was deactivated and policy p2 was created; the next request was
\* denied by p2 and policy 1 was not in its list
C21_Witness ==
    /\ Finished(1) /\ resp[1].code = 403
    /\ ~policies[1].is_active
    /\ Len(policies) = 2
    /\ Len(req[1].policies) = 1
    /\ req[1].result.policy_id = 2
    /\ \E a \in Admins : admin[a].op = "create_policy" /\ admin[a].id = 2

----------------------------------------------------------------------------
(* C22 *)

\* the enforcement call of request r returned allowed = false
Denied(r) == pc[r] = "done" /\ req[r].result # NoResult /\ ~req[r].result.allowed

\* C22: a request whose enforcement call returned allowed = false is answered
\* with a client error, status 403, and the detail of the response is
\* "Policy violation: " followed by the message of the result, unchanged; the
\* message names the blocking policy.
C22_ClientErrorWithMessage ==
    \A r \in Procs :
        Denied(r) =>
            /\ resp[r].code \in 400..499
            /\ resp[r].code = 403
            /\ req[r].result.message # <<>>
            /\ resp[r].detail = <<"Policy violation: ">> \o req[r].result.message
            /\ \E i \in DOMAIN req[r].policies :
                  /\ req[r].policies[i].id = req[r].result.policy_id
                  /\ req[r].result.message = Message(req[r].policies[i])

\* a denial by a policy with a description: the detail ends with it
C22_Witness ==
    /\ Denied(1)
    /\ resp[1].code = 403
    /\ req[1].result.policy_id = 2
    /\ Last(resp[1].detail) = "desc"
    /\ resp[1].detail[3] = "p2"

----------------------------------------------------------------------------
(* C23 *)

\* C23: evaluation order is creation order.  When a request is denied, the
\* policy named in the result is the oldest one (ids are given in creation
\* order) among the policies of its list whose check is unsatisfied.
C23_OldestFailingPolicyReported ==
    \A r \in Procs :
        Denied(r) =>
            \A i \in DOMAIN req[r].policies :
                ~Satisfied(req[r].policies[i], req[r].model, req[r].status) =>
                    req[r].result.policy_id <= req[r].policies[i].id

----------------------------------------------------------------------------
(* C24 *)

\* the ids of the policies in the list that request r has read in this step
ListedIds(r) == {req'[r].policies[k].id : k \in DOMAIN req'[r].policies}

\* request r reads its policy list in this step, for an entity of a tenant
ReadsForTenant(r) ==
    /\ pc[r] = "loaded" /\ pc'[r] = "checking"
    /\ req[r].model.organization_id \notin {None, Zero}

----------------------------------------------------------------------------
(* C28 *)

----------------------------------------------------------------------------
(* C25 *)

\* the policy, as request r read it, that the result of r names
BlockingPolicy(r) ==
    CHOOSE p \in Range(req[r].policies) : p.id = req[r].result.policy_id

\* the last violation record is the one of the denied request r: it has the
\* attempted status, the status read with the entity, and the id, name and
\* kind of the blocking policy
RecordsDenial(r) ==
    LET v == Last(violations) IN
    /\ v.policy_id = req[r].result.policy_id
    /\ v.model_id = req[r].model_id
    /\ v.details.attempted_status = req[r].status
    /\ v.details.current_status = req[r].model.compliance_status
    /\ v.details.policy_name = BlockingPolicy(r).name
    /\ v.details.policy_condition = BlockingPolicy(r).condition_type

\* C25, as claimed: the violation written on a denial records the attempted
\* status, the status read with the entity, the identity and kind of the
\* blocking policy, and a reason that is the text of the returned message,
\* "Policy '<name>' blocked this action: <description or condition_type>".
C25_ReasonIsMessage ==
    \A r \in Procs :
        Denied(r) =>
            /\ RecordsDenial(r)
            /\ Last(violations).details.reason = req[r].result.message

\* C25, amended: the violation written on a denial records the attempted
\* status, the status read with the entity, the identity and kind of the
\* blocking policy, and the reason "Policy '<name>' blocked this action":
\* the returned message without its ending ": <description or condition_type>".
C25_ViolationPayload ==
    \A r \in Procs :
        Denied(r) =>
            /\ RecordsDenial(r)
            /\ Last(violations).details.reason =
                    <<"Policy '", BlockingPolicy(r).name, "' blocked this action">>
            /\ req[r].result.message =
                    <<"Policy '", BlockingPolicy(r).name, "' blocked this action: ",
                      DescriptionOrCondition(BlockingPolicy(r))>>

\* the approval of an entity under review was denied by the policy without a
\* description: the record has under_review as the current status, and the
\* message ends with the policy's condition type
C25_Witness ==
    /\ Denied(1)
    /\ Last(violations).details.current_status = "under_review"
    /\ Last(violations).details.attempted_status = "approved"
    /\ Last(violations).details.policy_name = "p1"
    /\ Last(req[1].result.message) = "require_evaluation_before_approval"

----------------------------------------------------------------------------
(* C26 *)

\* request r ran to its response without a database fault, on a stored
\* entity, and the list of active policies it read was empty
FinishedUnderNoPolicy(r) ==
    /\ Finished(r)
    /\ req[r].model # NoRow
    /\ req[r].result # NoResult
    /\ req[r].policies = <<>>

\* C26: when no active policy is applicable, a request from any current
\* status to any target status of ComplianceStatus, a backward move and the
\* same status included, is allowed and applied: it is answered 200, the
\* stored status is the target, and the change is logged from the status read
\* to the target.
C26_PermissiveStateMachine ==
    \A r \in Procs :
        FinishedUnderNoPolicy(r) =>
            /\ req[r].result.allowed
            /\ resp[r].code = 200
            /\ models[req[r].model_id].compliance_status = req[r].status
            /\ StatusChange(Len(audit), LoadedStatus(r), req[r].status)

\* under no active policy a high-risk entity went from draft to approved and
\* then back to draft
C26_Witness ==
    /\ FinishedUnderNoPolicy(1)
    /\ models[1].risk_level \in HighRisk
    /\ StatusChange(1, "draft", "approved")
    /\ StatusChange(2, "approved", "draft")
    /\ models[1].compliance_status = "draft"

----------------------------------------------------------------------------
(* C27 *)

\* the entity states: any risk level with any compliance status
EntityStates ==
    {OfOrganization(ModelRegistry(1, risk, status), None) :
        risk \in RiskLevel, status \in ComplianceStatus}

----------------------------------------------------------------------------
(* C29 *)

\* the policy kind require_evaluation_before_approval is satisfied for the
\* approval of the stored model
EvidenceSatisfied(model_id) ==
    check_require_evaluation_before_approval(models[model_id], "approved")

\* C29: evidence is monotone.  Every step, a step of an enforcement call that
\* metric and version additions interleave with included, leaves the versions
\* and the metrics it found in place, adding rows at the end only; and a model
\* for whose approval require_evaluation_before_approval is satisfied before
\* the step has it satisfied after the step.
C29_EvidenceMonotone ==
    [][/\ Extends(versions', versions)
       /\ Extends(metrics', metrics)
       /\ \A m \in DOMAIN models : EvidenceSatisfied(m) => EvidenceSatisfied(m)']_vars

\* a metric was recorded on the first version of model 1, a newer version of
\* the model was created, and the approval was allowed under the policy on
\* the older version's metric
C29_Witness ==
    /\ metrics # <<>>
    /\ req[1].policies # <<>>
    /\ Len(versions) = 3
    /\ versions[3].model_id = 1
    /\ \A m \in DOMAIN metrics : metrics[m].version_id = 1
    /\ EvidenceSatisfied(1)
    /\ Finished(1)
    /\ resp[1].code = 200
    /\ models[1].compliance_status = "approved"

----------------------------------------------------------------------------
(* C30 *)

\* the COMPLIANCE_STATUS_CHANGE entries of a model, in commit order
StatusChanges(model_id) ==
    SelectSeq(audit, LAMBDA e : /\ e.action = "COMPLIANCE_STATUS_CHANGE"
                                /\ e.entity_id = model_id)

\* no request is in flight, and none of the last requests met a database fault
Quiescent ==
    \A r \in Procs : pc[r] \in {"idle", "done"} /\ req[r].fault = None

\* C30, as claimed: whenever no request is in flight, the
\* COMPLIANCE_STATUS_CHANGE entries of each entity, in commit order, form a
\* chain: the first entry's from is draft, each entry's from is the previous
\* entry's to, and the last entry's to is the stored status of the entity;
\* also when status requests on the same entity interleave.
C30_AuditChain ==
    Quiescent =>
        \A m \in DOMAIN models :
            LET c == StatusChanges(m) IN
            c # <<>> =>
                /\ c[1].details.from = "draft"
                /\ \A i \in 2..Len(c) : c[i].details.from = c[i - 1].details.to
                /\ Last(c).details.to = models[m].compliance_status

====
